---- MODULE Spec2Model ----
(***************************************************************************)
(* A model of tvnow (src/src/cmd.rs, src/src/epg.rs): one invocation of    *)
(* Cli::execute, the batch fetch behind the Weekly printers, the date      *)
(* window of the Weekly initialisers and the nine Printer::print bodies.   *)
(*                                                                         *)
(* Text is a sequence of one-character strings; a line of output is a      *)
(* record holding its text, the colour applied to the channel name and,    *)
(* as a ghost field, the place of the document it was produced from.       *)
(***************************************************************************)
EXTENDS Integers, Sequences, FiniteSets, TLC

VARIABLES
    pc,            \* position of the invocation
    args,          \* the command line given to Cli::execute
    env,           \* value of the TV_AREA environment variable, or None
    now,           \* instant read by Local::now(), minutes since 1970-01-01T00:00Z
    tz,            \* the local time zone of the machine
    opt,           \* result of get_opt
    area_id,       \* area id resolved by run
    urls,          \* URLs built by the initialiser
    handles,       \* number of tasks spawned by multiple_requests
    tasks,         \* per request: "unspawned", "running" or its result
    overtook,      \* ghost: a request ended while one before it was still running
    body_strings,  \* results collected by multiple_requests, in join order
    printer,       \* the printer built by create_printer, or None
    out_stream,    \* lines delivered to Cli.out_stream
    err_stream,    \* lines delivered to Cli.err_stream
    exit_code      \* value returned by Cli::execute

vars == <<pc, args, env, now, tz, opt, area_id, urls, handles, tasks, overtook,
          body_strings, printer, out_stream, err_stream, exit_code>>

None == "None"

(***************************************************************************)
(* Bounds of the model.                                                    *)
(***************************************************************************)
\* most channel markers in a generated document
MaxChannels == 2
\* most program lists (ul elements) in a generated document
MaxLists == 2
\* most slots (li elements) in a generated document, over all its lists
MaxSlots == 2
\* lines the BufWriter holds before it writes through (8 KiB in std)
BufCap == 2

(***************************************************************************)
(* Program constants.                                                      *)
(***************************************************************************)
TV_GUIDE_START_TIME == 5
WEEK_COUNT == 8
BS_ID == 0
CS_ID == 255

(***************************************************************************)
(* Text helpers.                                                           *)
(***************************************************************************)
Digits == <<"0", "1", "2", "3", "4", "5", "6", "7", "8", "9">>

IsDigit(c) == \E n \in 1..10 : Digits[n] = c

DigitVal(c) == (CHOOSE n \in 1..10 : Digits[n] = c) - 1

\* n written with exactly two decimal digits (n in 0..99)
Pad2(n) == <<Digits[(n \div 10) + 1], Digits[(n % 10) + 1]>>

\* n written with exactly four decimal digits (n in 0..9999)
Pad4(n) == Pad2(n \div 100) \o Pad2(n % 100)

IsPrefix(p, s) == Len(p) <= Len(s) /\ SubSeq(s, 1, Len(p)) = p

(***************************************************************************)
(* Calendar arithmetic of chrono: days since 1970-01-01 <-> civil date.    *)
(***************************************************************************)
DaysFromCivil(y, m, d) ==
    LET yy  == IF m <= 2 THEN y - 1 ELSE y
        era == yy \div 400
        yoe == yy - era * 400
        mp  == (m + 9) % 12
        doy == (153 * mp + 2) \div 5 + d - 1
        doe == yoe * 365 + yoe \div 4 - yoe \div 100 + doy
    IN  era * 146097 + doe - 719468

CivilFromDays(z) ==
    LET zz  == z + 719468
        era == zz \div 146097
        doe == zz - era * 146097
        yoe == (doe - doe \div 1460 + doe \div 36524 - doe \div 146096) \div 365
        doy == doe - (365 * yoe + yoe \div 4 - yoe \div 100)
        mp  == (5 * doy + 2) \div 153
        d   == doy - (153 * mp + 2) \div 5 + 1
        m   == IF mp < 10 THEN mp + 3 ELSE mp - 9
        y   == yoe + era * 400 + (IF m <= 2 THEN 1 ELSE 0)
    IN  [year |-> y, month |-> m, day |-> d]

\* datetime.format("%Y%m%d") of the calendar date `days`
FormatYmd(days) ==
    LET c == CivilFromDays(days)
    IN  Pad4(c.year) \o Pad2(c.month) \o Pad2(c.day)

(***************************************************************************)
(* chrono::Local: a DateTime<Local> is a UTC instant; its calendar fields  *)
(* are those of the instant shifted by the offset in force at the instant. *)
(* A zone is [base, at, shift]: offset base before instant at, base+shift  *)
(* from it on (minutes).                                                   *)
(***************************************************************************)
MinutesPerDay == 1440

OffsetAt(zone, t) == zone.base + (IF t >= zone.at THEN zone.shift ELSE 0)

LocalMinutes(zone, t) == t + OffsetAt(zone, t)

\* datetime.date(), as days since 1970-01-01
LocalDate(zone, t) == LocalMinutes(zone, t) \div MinutesPerDay

\* datetime.hour()
LocalHour(zone, t) == (LocalMinutes(zone, t) % MinutesPerDay) \div 60

\* datetime + Duration::days(n): n * 24 h on the instant
AddDays(t, n) == t + n * MinutesPerDay

(***************************************************************************)
(* WeekTv::init, WeekBsTv::init, WeekCsTv::init: the eight dated URLs.     *)
(* now1 and now2 are the two readings of Local::now().                     *)
(***************************************************************************)
WeekStart(zone, now1, now2) ==
    IF LocalHour(zone, now1) < TV_GUIDE_START_TIME
    THEN AddDays(now2, -1)
    ELSE now1

\* format!("{}", id) for a u8
FormatU8(n) ==
    IF n >= 100 THEN <<Digits[(n \div 100) + 1]>> \o Pad2(n % 100)
    ELSE IF n >= 10 THEN Pad2(n)
    ELSE <<Digits[n + 1]>>

\* A URL is its path under https://bangumi.org/epg/ and its query, a sequence
\* of <<key, value>> pairs.
WeekUrl(base, id, zone, start, k) ==
    LET date == <<"broad_cast_date", FormatYmd(LocalDate(zone, AddDays(start, k)))>>
    IN  [path  |-> base,
         query |-> IF base = "td" THEN <<date, <<"ggm_group_id", FormatU8(id)>>>>
                   ELSE <<date>>]

WeekUrls(base, id, zone, now1, now2) ==
    [k \in 1..WEEK_COUNT |->
        WeekUrl(base, id, zone, WeekStart(zone, now1, now2), k - 1)]

(***************************************************************************)
(* Documents.  Html::parse_document and the three selectors are taken as   *)
(* given: a document is the sequence of inner_html texts its channel       *)
(* markers hold ("div#ch_area ul li.topmost p") and the sequence of its    *)
(* program lists ("div#program_area ul"), each a sequence of li elements   *)
(* with their classes, their "s" and "e" attributes and the text of their  *)
(* first p.program_title.  An absent attribute or title is <<>>, a present *)
(* one <<text>>.                                                            *)
(***************************************************************************)
Some(x) == <<x>>
Absent == <<>>

T0930 == <<"2","0","2","4","0","1","1","0","0","9","3","0">>
T1000 == <<"2","0","2","4","0","1","1","0","1","0","0","0">>
T1100 == <<"2","0","2","4","0","1","1","0","1","1","0","0">>
TShort == <<"2","0","2","4","0","1","1","0","0","9">>
\* values that are not twelve digits: thirteen digits, eleven digits, letters in
\* the place of the hour, a space before the digits
TLong == <<"2","0","2","4","0","1","1","0","0","9","3","0","0">>
TEleven == <<"2","0","2","4","0","1","1","0","0","9","3">>
TAlpha == <<"2","0","2","4","0","1","1","0","a","b","3","0">>
TPadded == <<" ","2","0","2","4","0","1","1","0","0","9","3","0">>

News == <<"N","e","w","s">>
QandA == <<"Q","&","a","m","p",";","A">>

Li(classes, s, e, title) == [classes |-> classes, s |-> s, e |-> e, title |-> title]

CurTitled    == Li({"sc-current"}, Some(T0930), Some(T1000), Some(QandA))
CurUntitled  == Li({"sc-current"}, Some(T0930), Some(T1000), Absent)
FutGood      == Li({"sc-future"}, Some(T0930), Some(T1000), Some(News))
FutLater     == Li({"sc-future"}, Some(T1000), Some(T1100), Some(QandA))
FutUntitled  == Li({"sc-future"}, Some(T1000), Some(T1100), Absent)
FutNoStart   == Li({"sc-future"}, Absent, Some(T1000), Some(News))
FutNoEnd     == Li({"sc-future"}, Some(T0930), Absent, Some(News))
FutShort     == Li({"sc-future"}, Some(TShort), Some(T1000), Some(News))
Past         == Li({}, Some(T0930), Some(T1000), Some(News))

SlotKinds ==
    {CurTitled, CurUntitled, FutGood, FutUntitled, FutNoStart, FutNoEnd,
     FutShort, Past}

\* inner_html of the channel markers, before trim
ChannelTexts ==
    << <<" ", "1", " ">>, <<"2", " ">>, <<" ", "3">>, <<"4">> >>

Document(nch, lists) ==
    [channels |-> SubSeq(ChannelTexts, 1, nch), lists |-> lists]

RECURSIVE SumSeq(_)
SumSeq(s) == IF s = <<>> THEN 0 ELSE Head(s) + SumSeq(Tail(s))

\* the sequences of lists whose i-th list has shape[i] slots
RECURSIVE ListsOfShape(_)
ListsOfShape(shape) ==
    IF shape = <<>> THEN {<<>>}
    ELSE {<<l>> \o rest : l \in [1..Head(shape) -> SlotKinds],
                           rest \in ListsOfShape(Tail(shape))}

Shapes ==
    {sh \in UNION {[1..n -> 0..MaxSlots] : n \in 0..MaxLists} :
        SumSeq(sh) <= MaxSlots}

\* every document within the bounds
Docs ==
    {Document(nch, lists) :
        nch \in 0..MaxChannels, lists \in UNION {ListsOfShape(sh) : sh \in Shapes}}

(***************************************************************************)
(* str::trim, htmlize::unescape, str::get.                                 *)
(***************************************************************************)
IsSpace(c) == c \in {" ", "\n", "\t"}

RECURSIVE TrimStart(_)
TrimStart(s) ==
    IF s /= <<>> /\ IsSpace(Head(s)) THEN TrimStart(Tail(s)) ELSE s

RECURSIVE TrimEnd(_)
TrimEnd(s) ==
    IF s /= <<>> /\ IsSpace(s[Len(s)]) THEN TrimEnd(SubSeq(s, 1, Len(s) - 1)) ELSE s

Trim(s) == TrimEnd(TrimStart(s))

AmpEntity == <<"&", "a", "m", "p", ";">>

\* the character reference &amp; decoded (the one reference the documents use)
RECURSIVE Unescape(_)
Unescape(s) ==
    IF s = <<>> THEN <<>>
    ELSE IF IsPrefix(AmpEntity, s)
         THEN <<"&">> \o Unescape(SubSeq(s, Len(AmpEntity) + 1, Len(s)))
         ELSE <<Head(s)>> \o Unescape(Tail(s))

\* s.get(a..b) on one-byte characters: the bytes a..b-1, or None past the end
Get(s, a, b) == IF b <= Len(s) THEN Some(SubSeq(s, a + 1, b)) ELSE Absent

(***************************************************************************)
(* NaiveDateTime::parse_from_str(s, "%Y%m%d%H%M") and format("%a %R").     *)
(* Each numeric item skips leading white space and takes 1..width digits   *)
(* (%Y: 4, the others: 2); a sign before the year lifts the width; input   *)
(* left over, or fields that are no date and time, are an error.           *)
(***************************************************************************)
RECURSIVE DigitRun(_, _)
DigitRun(s, max) ==
    IF max > 0 /\ s /= <<>> /\ IsDigit(Head(s)) THEN 1 + DigitRun(Tail(s), max - 1)
    ELSE 0

RECURSIVE NumVal(_)
NumVal(ds) ==
    IF ds = <<>> THEN 0 ELSE NumVal(SubSeq(ds, 1, Len(ds) - 1)) * 10 + DigitVal(ds[Len(ds)])

\* one numeric item at the head of s: [ok, val, rest]
ScanItem(s, width, signed) ==
    LET t    == TrimStart(s)
        sign == signed /\ t /= <<>> /\ Head(t) \in {"+", "-"}
        u    == IF sign THEN Tail(t) ELSE t
        n    == DigitRun(u, IF sign THEN Len(u) ELSE width)
        v    == NumVal(SubSeq(u, 1, n))
    IN  [ok   |-> n >= 1,
         val  |-> IF sign /\ Head(t) = "-" THEN 0 - v ELSE v,
         rest |-> SubSeq(u, n + 1, Len(u))]

ValidDate(y, m, d) ==
    /\ m \in 1..12
    /\ d \in 1..31
    /\ y \in 0..9999
    /\ CivilFromDays(DaysFromCivil(y, m, d)) = [year |-> y, month |-> m, day |-> d]

\* the numeric items of the given widths, one after the other: [ok, vals, rest]
RECURSIVE ScanItems(_, _, _)
ScanItems(s, widths, signed) ==
    IF widths = <<>> THEN [ok |-> TRUE, vals |-> <<>>, rest |-> s]
    ELSE LET it == ScanItem(s, Head(widths), signed)
         IN  IF ~it.ok THEN [ok |-> FALSE, vals |-> <<>>, rest |-> s]
             ELSE LET r == ScanItems(it.rest, Tail(widths), FALSE)
                  IN  [ok |-> r.ok, vals |-> <<it.val>> \o r.vals, rest |-> r.rest]

\* %Y%m%d%H%M
ItemWidths == <<4, 2, 2, 2, 2>>

ValidDateTime(v) ==
    /\ ValidDate(v[1], v[2], v[3])
    /\ v[4] <= 23
    /\ v[5] <= 59

\* Some([days, hour, minute]) or None
ParseDateTime(s) ==
    LET f == ScanItems(s, ItemWidths, TRUE)
    IN  IF f.ok /\ f.rest = <<>> /\ ValidDateTime(f.vals)
        THEN Some([days   |-> DaysFromCivil(f.vals[1], f.vals[2], f.vals[3]),
                   hour   |-> f.vals[4],
                   minute |-> f.vals[5]])
        ELSE Absent

WeekdayNames ==
    << <<"S","u","n">>, <<"M","o","n">>, <<"T","u","e">>, <<"W","e","d">>,
       <<"T","h","u">>, <<"F","r","i">>, <<"S","a","t">> >>

\* dt.format("%a %R")
FormatWeekdayTime(dt) ==
    WeekdayNames[((dt.days + 4) % 7) + 1] \o <<" ">> \o Pad2(dt.hour) \o <<":">>
        \o Pad2(dt.minute)

(***************************************************************************)
(* io::BufWriter over the sink.  writeln! appends a line to the buffer,    *)
(* writing the buffered lines through first when the buffer is full.  When *)
(* print returns, or unwinds after a panic, the writer is dropped and the  *)
(* buffer is written out; a build that aborts on panic drops nothing.      *)
(***************************************************************************)
NewWriter(sink) == [sink |-> sink, buf |-> <<>>, panicked |-> FALSE]

WriteLn(w, line) ==
    IF Len(w.buf) + 1 > BufCap
    THEN [w EXCEPT !.sink = @ \o w.buf, !.buf = <<line>>]
    ELSE [w EXCEPT !.buf = Append(@, line)]

\* unwrap() on None, or an index past the end of channels
Panic(w) == [w EXCEPT !.panicked = TRUE]

PanicStrategies == {"unwind", "abort"}

\* the writer dropped without its buffer being written out
DropWriterMutant(w, strategy) == [out |-> w.sink, panicked |-> w.panicked]

DropWriter(w, strategy) ==
    [out      |-> IF w.panicked /\ strategy = "abort" THEN w.sink ELSE w.sink \o w.buf,
     panicked |-> w.panicked]

Line(text, color, src) == [text |-> text, color |-> color, src |-> src]

(***************************************************************************)
(* Printer::print.  The nine bodies are three loops, each written three    *)
(* times with another colour: Snapshot (Tv, BsTv, CsTv), FullDay (TodayTv, *)
(* TodayBsTv, TodayCsTv) and Weekly (WeekTv, WeekBsTv, WeekCsTv).  A loop  *)
(* threads the writer w through the program lists of a document; doc.req   *)
(* is the ghost position of the request the document answers.              *)
(***************************************************************************)
TVCOLOR == "BrightYellow"
BSCOLOR == "BrightCyan"
CSCOLOR == "TrueColor(255,165,0)"
NoColor == "none"

\* the literal written for a channel nothing is on
NotBroadcasting == <<"NOT_BROADCASTING_NOW">>

HasClass(li, cls) == cls \in li.classes

\* ul.select(selector).next(): position of the first li of the class, or 0
FirstOfClass(ul, cls) ==
    IF \E j \in 1..Len(ul) : HasClass(ul[j], cls)
    THEN CHOOSE j \in 1..Len(ul) :
            /\ HasClass(ul[j], cls)
            /\ \A k \in 1..(j - 1) : ~HasClass(ul[k], cls)
    ELSE 0

\* channels[i]: the trimmed text, or None when i is past the end (a panic)
ChannelAt(doc, i) ==
    IF i <= Len(doc.channels) THEN Some(Trim(doc.channels[i])) ELSE Absent

\* the body of the Snapshot loop for the i-th program list
SnapshotUl(w, doc, i, color) ==
    LET ul == doc.lists[i]
        j  == FirstOfClass(ul, "sc-current")
        ch == ChannelAt(doc, i)
    IN  IF j = 0
        THEN IF ch = Absent THEN Panic(w)
             ELSE WriteLn(w, Line(ch[1] \o <<" ">> \o NotBroadcasting, NoColor, <<doc.req, i, 0>>))
        ELSE IF ul[j].title = Absent THEN w
        ELSE IF ch = Absent THEN Panic(w)
        ELSE WriteLn(w, Line(ch[1] \o <<" ">> \o Unescape(ul[j].title[1]), color, <<doc.req, i, j>>))

RECURSIVE SnapshotLoop(_, _, _, _)
SnapshotLoop(w, doc, i, color) ==
    IF w.panicked \/ i > Len(doc.lists) THEN w
    ELSE SnapshotLoop(SnapshotUl(w, doc, i, color), doc, i + 1, color)

\* the writer as the body of print leaves it, before it is dropped
SnapshotPrint(doc, color, sink) == SnapshotLoop(NewWriter(sink), doc, 1, color)

\* the title unwrapped like the attributes
TodayLiMutant(w, li, src) ==
    LET sh == IF li.s = Absent THEN Absent ELSE Get(li.s[1], 8, 10)
        sm == IF li.s = Absent THEN Absent ELSE Get(li.s[1], 10, 12)
        eh == IF li.e = Absent THEN Absent ELSE Get(li.e[1], 8, 10)
        em == IF li.e = Absent THEN Absent ELSE Get(li.e[1], 10, 12)
    IN  IF sh = Absent \/ sm = Absent \/ eh = Absent \/ em = Absent THEN Panic(w)
        ELSE IF li.title = Absent THEN Panic(w)
        ELSE WriteLn(w, Line(sh[1] \o <<":">> \o sm[1] \o <<" ", "~", " ">> \o eh[1]
                                \o <<":">> \o em[1] \o <<" ">> \o Unescape(li.title[1]),
                             NoColor, src))

\* the body of the inner FullDay loop for one li.sc-future
TodayLi(w, li, src) ==
    LET sh == IF li.s = Absent THEN Absent ELSE Get(li.s[1], 8, 10)
        sm == IF li.s = Absent THEN Absent ELSE Get(li.s[1], 10, 12)
        eh == IF li.e = Absent THEN Absent ELSE Get(li.e[1], 8, 10)
        em == IF li.e = Absent THEN Absent ELSE Get(li.e[1], 10, 12)
    IN  IF sh = Absent \/ sm = Absent \/ eh = Absent \/ em = Absent THEN Panic(w)
        ELSE IF li.title = Absent THEN w
        ELSE WriteLn(w, Line(sh[1] \o <<":">> \o sm[1] \o <<" ", "~", " ">> \o eh[1]
                                \o <<":">> \o em[1] \o <<" ">> \o Unescape(li.title[1]),
                             NoColor, src))

\* every li of the list taken, whatever its classes
RECURSIVE TodayLisMutant(_, _, _, _, _)
TodayLisMutant(w, doc, i, j, color) ==
    IF w.panicked \/ j > Len(doc.lists[i]) THEN w
    ELSE TodayLisMutant(TodayLi(w, doc.lists[i][j], <<doc.req, i, j>>), doc, i, j + 1, color)

RECURSIVE TodayLis(_, _, _, _, _)
TodayLis(w, doc, i, j, color) ==
    IF w.panicked \/ j > Len(doc.lists[i]) THEN w
    ELSE IF HasClass(doc.lists[i][j], "sc-future")
         THEN TodayLis(TodayLi(w, doc.lists[i][j], <<doc.req, i, j>>), doc, i, j + 1, color)
         ELSE TodayLis(w, doc, i, j + 1, color)

\* the body of the outer FullDay loop: the header line, then the slots
TodayUl(w, doc, i, color) ==
    LET ch == ChannelAt(doc, i)
    IN  IF ch = Absent THEN Panic(w)
        ELSE TodayLis(WriteLn(w, Line(ch[1], color, <<doc.req, i, 0>>)), doc, i, 1, color)

RECURSIVE TodayLoop(_, _, _, _)
TodayLoop(w, doc, i, color) ==
    IF w.panicked \/ i > Len(doc.lists) THEN w
    ELSE TodayLoop(TodayUl(w, doc, i, color), doc, i + 1, color)

TodayPrint(doc, color, sink) == TodayLoop(NewWriter(sink), doc, 1, color)

\* the body of the inner Weekly loop for one li.sc-future of the i-th list
WeekLi(w, doc, i, j) ==
    LET li    == doc.lists[i][j]
        start == IF li.s = Absent THEN Absent ELSE ParseDateTime(li.s[1])
        end   == IF li.e = Absent THEN Absent ELSE ParseDateTime(li.e[1])
        ch    == ChannelAt(doc, i)
    IN  IF start = Absent \/ end = Absent THEN Panic(w)
        ELSE IF li.title = Absent THEN w
        ELSE IF ch = Absent THEN Panic(w)
        ELSE WriteLn(w, Line(ch[1] \o <<" ">> \o FormatWeekdayTime(start[1]) \o <<" ", "~", " ">>
                                \o FormatWeekdayTime(end[1]) \o <<" ">>
                                \o Unescape(li.title[1]),
                             NoColor, <<doc.req, i, j>>))

RECURSIVE WeekLis(_, _, _, _)
WeekLis(w, doc, i, j) ==
    IF w.panicked \/ j > Len(doc.lists[i]) THEN w
    ELSE IF HasClass(doc.lists[i][j], "sc-future")
         THEN WeekLis(WeekLi(w, doc, i, j), doc, i, j + 1)
         ELSE WeekLis(w, doc, i, j + 1)

RECURSIVE WeekUls(_, _, _)
WeekUls(w, doc, i) ==
    IF w.panicked \/ i > Len(doc.lists) THEN w
    ELSE WeekUls(WeekLis(w, doc, i, 1), doc, i + 1)

\* the documents taken from the last to the first
RECURSIVE WeekLoopMutant(_, _, _)
WeekLoopMutant(w, docs, d) ==
    IF w.panicked \/ d > Len(docs) THEN w
    ELSE WeekLoopMutant(WeekUls(w, docs[Len(docs) + 1 - d], 1), docs, d + 1)

\* for epg_doc in &self.epg_docs
RECURSIVE WeekLoop(_, _, _)
WeekLoop(w, docs, d) ==
    IF w.panicked \/ d > Len(docs) THEN w
    ELSE WeekLoop(WeekUls(w, docs[d], 1), docs, d + 1)

WeekPrint(docs, sink) == WeekLoop(NewWriter(sink), docs, 1)

ColorOf(variant) ==
    CASE variant = "td" -> TVCOLOR
      [] variant = "bs" -> BSCOLOR
      [] variant = "cs" -> CSCOLOR

\* p.print(w) for a printer p = [variant, mode, docs], up to the drop of the
\* writer
PrinterPrint(p, sink) ==
    CASE p.mode = "Snapshot" -> SnapshotPrint(p.docs[1], ColorOf(p.variant), sink)
      [] p.mode = "FullDay"  -> TodayPrint(p.docs[1], ColorOf(p.variant), sink)
      [] p.mode = "Weekly"   -> WeekPrint(p.docs, sink)

(***************************************************************************)
(* cmd.rs: the command line, the area table and the choice of a printer.   *)
(* A line of the area list or of the error stream holds its text as one    *)
(* token per word group.                                                   *)
(***************************************************************************)
\* AREA_MAP
AreaTable ==
    << <<"cs", 255>>, <<"bs", 0>>, <<"sapporo", 1>>, <<"hakodate", 8>>,
       <<"asahikawa", 3>>, <<"obihiro", 9>>, <<"kushiro", 10>>,
       <<"kitami", 12>>, <<"muroran", 6>>, <<"aomori", 13>>,
       <<"iwate", 16>>, <<"miyagi", 19>>, <<"akita", 22>>,
       <<"yamagata", 25>>, <<"fukushima", 28>>, <<"tokyo", 42>>,
       <<"kanagawa", 45>>, <<"saitama", 37>>, <<"chiba", 40>>,
       <<"ibaragi", 31>>, <<"tochigi", 33>>, <<"gumma", 35>>,
       <<"yamanashi", 50>>, <<"nagano", 51>>, <<"niigata", 56>>,
       <<"aichi", 73>>, <<"ishikawa", 60>>, <<"shizuoka", 67>>,
       <<"fukui", 62>>, <<"toyama", 58>>, <<"mie", 76>>, <<"gifu", 64>>,
       <<"osaka", 84>>, <<"kyoto", 81>>, <<"hyogo", 85>>,
       <<"wakayama", 93>>, <<"nara", 91>>, <<"shiga", 79>>,
       <<"hiroshima", 101>>, <<"okayama", 98>>, <<"shimane", 96>>,
       <<"tottori", 95>>, <<"yamaguchi", 105>>, <<"ehime", 112>>,
       <<"kagawa", 110>>, <<"tokushima", 109>>, <<"kochi", 116>>,
       <<"fukuoka", 117>>, <<"kumamoto", 126>>, <<"nagasaki", 123>>,
       <<"kagoshima", 131>>, <<"miyazaki", 129>>, <<"oita", 127>>,
       <<"saga", 122>>, <<"okinawa", 134>>, <<"kitakyushu", 120>> >>

SortedAreaNames ==
    << "aichi", "akita", "aomori", "asahikawa", "bs", "chiba", "cs",
       "ehime", "fukui", "fukuoka", "fukushima", "gifu", "gumma",
       "hakodate", "hiroshima", "hyogo", "ibaragi", "ishikawa", "iwate",
       "kagawa", "kagoshima", "kanagawa", "kitakyushu", "kitami", "kochi",
       "kumamoto", "kushiro", "kyoto", "mie", "miyagi", "miyazaki",
       "muroran", "nagano", "nagasaki", "nara", "niigata", "obihiro",
       "oita", "okayama", "okinawa", "osaka", "saga", "saitama",
       "sapporo", "shiga", "shimane", "shizuoka", "tochigi", "tokushima",
       "tokyo", "tottori", "toyama", "wakayama", "yamagata", "yamaguchi",
       "yamanashi" >>

AreaNames == {AreaTable[k][1] : k \in 1..Len(AreaTable)}

\* AREA_MAP.get(name)
AreaGet(name) ==
    IF name \in AreaNames
    THEN Some((CHOOSE k \in 1..Len(AreaTable) : AreaTable[k][1] = name))
    ELSE Absent

AreaIdOf(name) == AreaTable[AreaGet(name)[1]][2]

\* the command lines tried: flags, an unknown flag, --help, 0..2 area names
ArgNames == {<<>>, <<"bs">>, <<"cs">>, <<"nagoya">>, <<"tokyo", "osaka">>}

Args ==
    [today : BOOLEAN, week : BOOLEAN, area : BOOLEAN, help : BOOLEAN,
     unknown : BOOLEAN, names : ArgNames]

Envs == {None, "fugafuga"}

\* the error clap reports for a command line, or "none"
ClapError(a) ==
    IF a.unknown THEN "UnknownArgument"
    ELSE IF a.help THEN "HelpDisplayed"
    ELSE IF Len(a.names) > 1 THEN "TooManyValues"
    ELSE IF (a.today /\ a.week) \/ (a.today /\ a.area) \/ (a.week /\ a.area)
    THEN "ArgumentConflict"
    ELSE "none"

\* Cli::get_opt: Opt::from_iter_safe(args)
GetOpt(a) ==
    [ok        |-> ClapError(a) = "none",
     error     |-> ClapError(a),
     today     |-> a.today,
     week      |-> a.week,
     area      |-> a.area,
     area_name |-> IF Len(a.names) >= 1 THEN Some(a.names[1]) ELSE Absent]

NoOpt ==
    [ok |-> FALSE, error |-> "none", today |-> FALSE, week |-> FALSE, area |-> FALSE,
     area_name |-> Absent]

\* the lines of clap's message: the error, the usage and the hint (help: the
\* help text), separated by empty lines
ClapMessage(kind) ==
    IF kind = "HelpDisplayed"
    THEN << <<"tvnow">>, <<"tv program display">>, <<>>, <<"USAGE:">>,
            <<"    tvnow [FLAGS] [AREA]">> >>
    ELSE << <<"error: ", kind>>, <<>>, <<"USAGE:">>, <<"    tvnow [FLAGS] [AREA]">>, <<>>,
            <<"For more information try --help">> >>

ErrLine(text, color, req) == Line(text, color, <<req, 0, 0>>)

\* writeln!(self.err_stream, "{}", e) for each kind of error run returns
ErrorLines(e) ==
    CASE e.kind = "clap"  -> [k \in 1..Len(ClapMessage(e.what)) |->
                                 ErrLine(ClapMessage(e.what)[k], NoColor, 0)]
      [] e.kind = "area"  -> <<ErrLine(<<e.what, " is not in the area">>, "BrightYellow", 0)>>
      [] e.kind = "fetch" -> <<ErrLine(<<"Failed to fetch from bangumi.org">>, NoColor, e.req)>>

\* Cli::print_areas
AreaLines ==
    [k \in 1..Len(SortedAreaNames) |->
        Line(<<SortedAreaNames[k]>>,
             IF SortedAreaNames[k] \in {"bs", "cs"} THEN "BrightYellow" ELSE NoColor,
             <<0, 0, 0>>)]

\* run: the default area, then the named area when the table has it
DefaultArea(e) == IF e = None THEN "tokyo" ELSE e

ResolveArea(default, area_name) ==
    IF area_name /= Absent /\ AreaGet(area_name[1]) /= Absent
    THEN AreaIdOf(area_name[1])
    ELSE AreaIdOf(default)

\* create_printer: the struct whose init is called
VariantOf(area) ==
    IF area = BS_ID THEN "bs" ELSE IF area = CS_ID THEN "cs" ELSE "td"

\* the today and week arms taken for each other
ModeOfMutant(o) ==
    IF o.week THEN "FullDay" ELSE IF o.today THEN "Weekly" ELSE "Snapshot"

ModeOf(o) ==
    IF o.today THEN "FullDay" ELSE IF o.week THEN "Weekly" ELSE "Snapshot"

\* the URL of Tv::init, TodayTv::init and their BS and CS twins
SingleUrl(variant, id) ==
    [path  |-> variant,
     query |-> IF variant = "td" THEN << <<"ggm_group_id", FormatU8(id)>> >> ELSE <<>>]

NoPrinter == [variant |-> "none", mode |-> "none", docs |-> <<>>]

(***************************************************************************)
(* The documents the server answers with.  The text of a response reaches  *)
(* nothing before Html::parse_document, so it is drawn when it is parsed.  *)
(***************************************************************************)
WithReq(doc, r) == [channels |-> doc.channels, lists |-> doc.lists, req |-> r]

PlainDoc == Document(2, << <<FutGood, FutLater>>, <<Past, FutGood>> >>)
BrokenDoc == Document(1, << <<FutGood, FutNoStart>> >>)
NowDoc == Document(2, << <<Past, CurTitled, FutGood>>, <<Past>> >>)
GapDoc == Document(2, << <<CurUntitled, FutUntitled>>, <<CurTitled, FutGood>> >>)
ShortDoc == Document(2, << <<CurTitled, FutGood>> >>)
LongDoc == Document(1, << <<CurTitled, FutGood>>, <<CurTitled, FutLater>> >>)
EmptyDoc == Document(0, <<>>)
WideDoc == Document(3, << <<CurTitled>>, <<FutGood>>, <<Past, CurTitled>> >>)

\* answers to the one request of a Snapshot or FullDay printer
MainDocs == {PlainDoc, BrokenDoc, NowDoc, GapDoc, ShortDoc, LongDoc, EmptyDoc, WideDoc}

\* answers to the requests of a Weekly printer, one per URL
WeekDocs == {PlainDoc, BrokenDoc}

Sites == [1..WEEK_COUNT -> WeekDocs]

(***************************************************************************)
(* multiple_requests and async_get_htmls.                                  *)
(***************************************************************************)
\* the result task i ended with, tagged with the position of its request
TaskResult(ts, i) == [ok |-> ts[i] = "ok", req |-> i]

Finished(ts, i) == ts[i] \in {"ok", "err"}

\* the handles awaited from the last to the first
JoinNextMutant(joined, ts) == Len(ts) - Len(joined)

\* for handle in handles: the position of the handle awaited next
JoinNext(joined, ts) == Len(joined) + 1

\* the loop over the handles left at the first failed result
AllJoinedMutant(joined, us) ==
    Len(joined) = Len(us) \/ \E k \in 1..Len(joined) : ~joined[k].ok

\* for handle in handles { .. } has run to its end
AllJoined(joined, us) == Len(joined) = Len(us)

\* the error of the last failed result returned, not of the first
CollectLastMutant(results) ==
    IF \E k \in 1..Len(results) : ~results[k].ok
    THEN [ok     |-> FALSE,
          bodies |-> <<>>,
          err    |-> results[CHOOSE k \in 1..Len(results) :
                                /\ ~results[k].ok
                                /\ \A h \in (k + 1)..Len(results) : results[h].ok].req]
    ELSE [ok |-> TRUE, bodies |-> results, err |-> 0]

\* the failed requests left out, the others kept
CollectMutant(results) ==
    [ok |-> TRUE, bodies |-> SelectSeq(results, LAMBDA r : r.ok), err |-> 0]

\* results.into_iter().collect::<Result<Vec<String>>>()
Collect(results) ==
    IF \E k \in 1..Len(results) : ~results[k].ok
    THEN [ok     |-> FALSE,
          bodies |-> <<>>,
          err    |-> results[CHOOSE k \in 1..Len(results) :
                                /\ ~results[k].ok
                                /\ \A h \in 1..(k - 1) : results[h].ok].req]
    ELSE [ok |-> TRUE, bodies |-> results, err |-> 0]

\* res_bodies.iter().map(|b| Html::parse_document(b))
ParseBodies(site, bodies) ==
    [k \in 1..Len(bodies) |-> WithReq(site[bodies[k].req], bodies[k].req)]

(***************************************************************************)
(* Clocks and zones.                                                       *)
(***************************************************************************)
Instant(y, m, d, h, mi) == DaysFromCivil(y, m, d) * MinutesPerDay + h * 60 + mi

\* Asia/Tokyo: UTC+9, no change
Tokyo == [base |-> 540, at |-> 0, shift |-> 0]
\* America/New_York around 2024-11-03 06:00Z: UTC-4, then UTC-5
NewYorkFall == [base |-> 0 - 240, at |-> Instant(2024, 11, 3, 6, 0), shift |-> 0 - 60]
\* America/New_York around 2024-03-10 07:00Z: UTC-5, then UTC-4
NewYorkSpring == [base |-> 0 - 300, at |-> Instant(2024, 3, 10, 7, 0), shift |-> 60]

Zones == {Tokyo, NewYorkFall, NewYorkSpring}

\* the clocks of the invocations of Spec: 04:30 and 05:00 on 2024-01-10 in
\* Tokyo, and 00:30 on 2024-11-02 in New York
MainClocks ==
    {[now |-> Instant(2024, 1, 9, 19, 30), tz |-> Tokyo],
     [now |-> Instant(2024, 1, 9, 20, 0), tz |-> Tokyo],
     [now |-> Instant(2024, 11, 2, 4, 30), tz |-> NewYorkFall]}

\* the clocks of SpecDates: every hour, at minutes 0, 30 and 59, of days around
\* the turn of a month, of a year, a leap day and the two changes of offset
ClockDays ==
    {<<2024, 1, 9>>, <<2024, 1, 10>>, <<2023, 12, 28>>, <<2024, 2, 25>>,
     <<2024, 3, 8>>, <<2024, 3, 9>>, <<2024, 11, 1>>, <<2024, 11, 2>>}

Instants ==
    {Instant(d[1], d[2], d[3], h, mi) : d \in ClockDays, h \in 0..23, mi \in {0, 30, 59}}

(***************************************************************************)
(* Spec: one invocation of Cli::execute.                                   *)
(***************************************************************************)
NoArgs ==
    [today |-> FALSE, week |-> FALSE, area |-> FALSE, help |-> FALSE,
     unknown |-> FALSE, names |-> <<>>]

\* the state of everything an invocation has not touched yet
FreshRun ==
    /\ opt = NoOpt
    /\ area_id = 0 - 1
    /\ urls = <<>>
    /\ handles = 0
    /\ tasks = <<>>
    /\ overtook = FALSE
    /\ body_strings = <<>>

FreshStreams ==
    /\ out_stream = <<>>
    /\ err_stream = <<>>
    /\ exit_code = None

Fresh == FreshRun /\ printer = NoPrinter /\ FreshStreams

Init ==
    /\ pc = "start"
    /\ args \in Args
    /\ env \in Envs
    /\ \E c \in MainClocks : now = c.now /\ tz = c.tz
    /\ Fresh

\* execute: Err(e) => writeln!(self.err_stream, "{}", e); ExitCode::Abnormal
Fail(e) ==
    /\ err_stream' = err_stream \o ErrorLines(e)
    /\ exit_code' = "Abnormal"
    /\ pc' = "done"

\* get_tv_printer(..).await?.print(&mut self.out_stream); Ok(()) => Normal.
\* A panic in print unwinds through execute: nothing is returned.
Render(p) ==
    \E w \in {PrinterPrint(p, out_stream)} :
        \E strategy \in PanicStrategies :
            \E r \in {DropWriter(w, strategy)} :
                /\ printer' = p
                /\ out_stream' = r.out
                /\ pc' = IF r.panicked THEN "panicked" ELSE "done"
                /\ exit_code' = IF r.panicked THEN exit_code ELSE "Normal"

\* Cli::execute up to the first await of the initialiser
Execute ==
    /\ pc = "start"
    /\ opt' = GetOpt(args)
    /\ UNCHANGED <<args, env, now, tz, handles, overtook, body_strings>>
    /\ IF ~opt'.ok
       THEN /\ Fail([kind |-> "clap", what |-> opt'.error, req |-> 0])
            /\ UNCHANGED <<area_id, urls, tasks, printer, out_stream>>
       ELSE IF opt'.area
       THEN /\ out_stream' = out_stream \o AreaLines
            /\ exit_code' = "Normal"
            /\ pc' = "done"
            /\ UNCHANGED <<area_id, urls, tasks, printer, err_stream>>
       ELSE IF AreaGet(DefaultArea(env)) = Absent
       THEN /\ Fail([kind |-> "area", what |-> DefaultArea(env), req |-> 0])
            /\ UNCHANGED <<area_id, urls, tasks, printer, out_stream>>
       ELSE /\ area_id' = ResolveArea(DefaultArea(env), opt'.area_name)
            /\ IF ModeOf(opt') = "Weekly"
               THEN /\ \E now2 \in {now, now + 1} :
                         urls' = WeekUrls(VariantOf(area_id'), area_id', tz, now, now2)
                    /\ tasks' = [k \in 1..WEEK_COUNT |-> "unspawned"]
                    /\ pc' = "spawning"
               ELSE /\ urls' = <<SingleUrl(VariantOf(area_id'), area_id')>>
                    /\ tasks' = <<"running">>
                    /\ pc' = "await_one"
            /\ UNCHANGED <<printer, out_stream, err_stream, exit_code>>

\* get_html(url).await returns: the printer is built and prints, or the error
\* goes up to execute
RecvOne ==
    /\ pc = "await_one"
    /\ UNCHANGED <<args, env, now, tz, opt, area_id, urls, handles, overtook,
                   body_strings>>
    /\ \E ok \in BOOLEAN :
        /\ tasks' = <<IF ok THEN "ok" ELSE "err">>
        /\ IF ok
           THEN /\ \E doc \in MainDocs :
                     Render([variant |-> VariantOf(area_id), mode |-> ModeOf(opt),
                             docs |-> <<WithReq(doc, 1)>>])
                /\ UNCHANGED err_stream
           ELSE /\ Fail([kind |-> "fetch", what |-> "", req |-> 1])
                /\ UNCHANGED <<printer, out_stream>>

\* multiple_requests: handles.push(task::spawn_local(..)) for the next URL
Spawn ==
    /\ pc = "spawning"
    /\ handles < Len(urls)
    /\ handles' = handles + 1
    /\ tasks' = [tasks EXCEPT ![handles + 1] = "running"]
    /\ pc' = IF handles' = Len(urls) THEN "joining" ELSE "spawning"
    /\ UNCHANGED <<args, env, now, tz, opt, area_id, urls, overtook, body_strings, printer,
                   out_stream, err_stream, exit_code>>

\* task i ends while the main task waits at handle.await (the tasks are local
\* to the thread: they run only then)
Complete(i) ==
    /\ pc = "joining"
    /\ tasks[i] = "running"
    /\ \E ok \in BOOLEAN : tasks' = [tasks EXCEPT ![i] = IF ok THEN "ok" ELSE "err"]
    /\ overtook' = (overtook \/ \E h \in 1..(i - 1) : tasks[h] = "running")
    /\ UNCHANGED <<pc, args, env, now, tz, opt, area_id, urls, handles, body_strings,
                   printer, out_stream, err_stream, exit_code>>

\* body_strings.push(handle.await) for the next handle, once its task ended
Join ==
    /\ pc = "joining"
    /\ Len(body_strings) < Len(urls)
    /\ Finished(tasks, JoinNext(body_strings, tasks))
    /\ body_strings' = Append(body_strings, TaskResult(tasks, JoinNext(body_strings, tasks)))
    /\ UNCHANGED <<pc, args, env, now, tz, opt, area_id, urls, handles, tasks, overtook,
                   printer, out_stream, err_stream, exit_code>>

\* multiple_requests returns; async_get_htmls collects and parses; the Weekly
\* printer is built and prints, or the error goes up to execute
Aggregate ==
    /\ pc = "joining"
    /\ AllJoined(body_strings, urls)
    /\ UNCHANGED <<args, env, now, tz, opt, area_id, urls, handles, tasks, overtook,
                   body_strings>>
    /\ LET c == Collect(body_strings)
       IN  IF c.ok
           THEN /\ \E site \in Sites :
                     Render([variant |-> VariantOf(area_id), mode |-> ModeOf(opt),
                             docs |-> ParseBodies(site, c.bodies)])
                /\ UNCHANGED err_stream
           ELSE /\ Fail([kind |-> "fetch", what |-> "", req |-> c.err])
                /\ UNCHANGED <<printer, out_stream>>

Next ==
    \/ Execute
    \/ RecvOne
    \/ Spawn
    \/ \E i \in 1..WEEK_COUNT : Complete(i)
    \/ Join
    \/ Aggregate

Spec == Init /\ [][Next]_vars

(***************************************************************************)
(* SpecBatch: the Weekly invocations alone, with the scheduling of the     *)
(* executor inside multiple_requests: as long as the main task can spawn   *)
(* or join, or a request is running, one of them takes a step (a request   *)
(* that runs ends at some time, with a body or with an error).             *)
(***************************************************************************)
InitBatch ==
    /\ pc = "start"
    /\ \E names \in {<<>>, <<"bs">>, <<"cs">>} : args = [NoArgs EXCEPT !.week = TRUE, !.names = names]
    /\ env = None
    /\ now = Instant(2024, 1, 9, 20, 0)
    /\ tz = Tokyo
    /\ Fresh

NextBatch ==
    \/ Execute
    \/ Spawn
    \/ \E i \in 1..WEEK_COUNT : Complete(i)
    \/ Join
    \/ Aggregate

\* a step of multiple_requests or of one of its tasks
BatchStep ==
    \/ Spawn
    \/ \E i \in 1..WEEK_COUNT : Complete(i)
    \/ Join

SpecBatch ==
    /\ InitBatch
    /\ [][NextBatch]_vars
    /\ WF_vars(BatchStep)

(***************************************************************************)
(* SpecDates: the date window of the Weekly initialisers, for every clock  *)
(* of Instants in every zone of Zones.                                     *)
(***************************************************************************)
InitDates ==
    /\ pc = "clock"
    /\ args = NoArgs
    /\ env = None
    /\ now \in Instants
    /\ tz \in Zones
    /\ Fresh

\* WeekTv::init (id 42), WeekBsTv::init, WeekCsTv::init up to the batch fetch
BuildWeekUrls ==
    /\ pc = "clock"
    /\ \E id \in {BS_ID, CS_ID, AreaIdOf("tokyo")}, now2 \in {now, now + 1} :
        /\ area_id' = id
        /\ urls' = WeekUrls(VariantOf(id), id, tz, now, now2)
    /\ pc' = "dated"
    /\ UNCHANGED <<args, env, now, tz, opt, handles, tasks, overtook, body_strings,
                   printer, out_stream, err_stream, exit_code>>

SpecDates == InitDates /\ [][BuildWeekUrls]_vars

(***************************************************************************)
(* SpecPrint: Printer::print of each of the nine printers, over every      *)
(* document within the bounds.  A Weekly printer holds the document at the *)
(* probed position of its eight, PlainDoc next to it and EmptyDoc at the   *)
(* others.                                                                 *)
(***************************************************************************)
Variants == {"td", "bs", "cs"}

ProbePositions == {2}

WeekOf(doc, p) ==
    [k \in 1..WEEK_COUNT |->
        WithReq(IF k = p THEN doc
                ELSE IF k \in {p - 1, p + 1} THEN PlainDoc ELSE EmptyDoc, k)]

Modes == {"Snapshot", "FullDay", "Weekly"}

\* the printer of a variant and a mode that holds the document
PrinterOf(v, m, doc, p) ==
    [variant |-> v, mode |-> m,
     docs |-> IF m = "Weekly" THEN WeekOf(doc, p) ELSE <<WithReq(doc, 1)>>]

InitPrint ==
    /\ pc = "print_ready"
    /\ args = NoArgs
    /\ env = None
    /\ now = Instant(2024, 1, 9, 20, 0)
    /\ tz = Tokyo
    /\ FreshRun
    /\ \E v \in Variants, m \in Modes, doc \in Docs, p \in ProbePositions :
        printer = PrinterOf(v, m, doc, p)
    /\ FreshStreams

\* printer.print(&mut out_stream)
PrintOnce ==
    /\ pc = "print_ready"
    /\ \E w \in {PrinterPrint(printer, out_stream)} :
        \E strategy \in PanicStrategies :
            \E r \in {DropWriter(w, strategy)} :
                /\ out_stream' = r.out
                /\ pc' = IF r.panicked THEN "panicked" ELSE "printed"
    /\ UNCHANGED <<args, env, now, tz, opt, area_id, urls, handles, tasks, overtook,
                   body_strings, printer, err_stream, exit_code>>

SpecPrint == InitPrint /\ [][PrintOnce]_vars

(***************************************************************************)
(* SpecStamps: Printer::print of the FullDay and Weekly printers over a    *)
(* document of one channel whose list holds a well-formed future slot and  *)
(* then a future slot with every pair of start and end values of Stamps.   *)
(***************************************************************************)
Stamps == {T0930, T1000, TShort, TLong, TEleven, TAlpha, TPadded}

StampDoc(s, e) ==
    Document(1, << <<FutGood, Li({"sc-future"}, Some(s), Some(e), Some(QandA))>> >>)

InitStamps ==
    /\ pc = "print_ready"
    /\ args = NoArgs
    /\ env = None
    /\ now = Instant(2024, 1, 9, 20, 0)
    /\ tz = Tokyo
    /\ FreshRun
    /\ \E v \in Variants, m \in {"FullDay", "Weekly"}, s \in Stamps, e \in Stamps,
          p \in ProbePositions :
        printer = PrinterOf(v, m, StampDoc(s, e), p)
    /\ FreshStreams

SpecStamps == InitStamps /\ [][PrintOnce]_vars


(***************************************************************************)
(* Properties of Spec.                                                     *)
(***************************************************************************)
\* C1: whatever the order the requests of a batch end in, the i-th element of
\* the sequence multiple_requests builds is the result of the request for the
\* i-th URL.
C1_OutputOrderIsInputOrder ==
    /\ Len(body_strings) <= Len(urls)
    /\ \A k \in 1..Len(body_strings) :
        /\ Finished(tasks, k)
        /\ body_strings[k] = TaskResult(tasks, k)

\* C1: a batch of eight, all joined, in which a request ended while an earlier
\* one was still running.
C1_Witness ==
    /\ pc = "joining"
    /\ Len(body_strings) = WEEK_COUNT
    /\ overtook

\* C2: when a request of a batch failed no printer is built and nothing is
\* rendered, the run ending Abnormal with a diagnostic; a printer is built
\* only when every request succeeded, and then it holds one document per URL,
\* the k-th parsed from the answer to the k-th URL.
C2_FailFast ==
    /\ (\E k \in 1..Len(tasks) : tasks[k] = "err") =>
        /\ printer = NoPrinter
        /\ out_stream = <<>>
        /\ pc = "done" => (exit_code = "Abnormal" /\ Len(err_stream) = 1)
    /\ printer /= NoPrinter =>
        /\ \A k \in 1..Len(tasks) : tasks[k] = "ok"
        /\ Len(printer.docs) = Len(urls)
        /\ \A k \in 1..Len(printer.docs) : printer.docs[k].req = k

\* C2: a Weekly run that ended with an error although some of its eight
\* requests had succeeded.
C2_Witness ==
    /\ pc = "done"
    /\ exit_code = "Abnormal"
    /\ Len(tasks) = WEEK_COUNT
    /\ \E k \in 1..WEEK_COUNT : tasks[k] = "err"
    /\ \E k \in 1..WEEK_COUNT : tasks[k] = "ok"

\* C6: the lines of a Weekly printer follow the order of the URLs, that is of
\* the dates: document k answers URL k, and the lines are in the order of
\* (document, program list, slot), whatever order the responses arrived in.
C6_WeeklyOrder ==
    printer.mode = "Weekly" =>
        /\ \A k \in 1..Len(printer.docs) : printer.docs[k].req = k
        /\ \A m \in 1..Len(out_stream) : \A n \in (m + 1)..Len(out_stream) :
            LET a == out_stream[m].src
                b == out_stream[n].src
            IN  \/ a[1] < b[1]
                \/ a[1] = b[1] /\ a[2] < b[2]
                \/ a[1] = b[1] /\ a[2] = b[2] /\ a[3] < b[3]

\* C6: a Weekly run whose responses did not arrive in the order of the URLs
\* and that rendered lines of all eight documents, two of them of one channel.
C6_Witness ==
    /\ pc = "done"
    /\ printer.mode = "Weekly"
    /\ overtook
    /\ \A k \in 1..WEEK_COUNT : \E n \in 1..Len(out_stream) : out_stream[n].src[1] = k
    /\ \E m \in 1..Len(out_stream) : \E n \in (m + 1)..Len(out_stream) :
        /\ out_stream[m].src[1] = out_stream[n].src[1]
        /\ out_stream[m].src[2] = out_stream[n].src[2]

\* C8: a run that met a fatal error (it ended Abnormal, or print panicked)
\* leaves no line in the output sink.
C8_AllOrNothing ==
    (pc = "panicked" \/ exit_code = "Abnormal") => out_stream = <<>>

\* C9: every run ends with an exit code; a failed run (argument error, default
\* area not in the table, failed request, panic in print) ends Abnormal with
\* exactly one line on the error stream, any other run ends Normal; a default
\* area X that is not in the table leaves exactly "X is not in the area".
C9_OneDiagnosticLine ==
    pc \in {"done", "panicked"} =>
        LET unknown == ClapError(args) = "none" /\ ~args.area
                          /\ AreaGet(DefaultArea(env)) = Absent
            failed  == \/ pc = "panicked"
                       \/ ClapError(args) /= "none"
                       \/ unknown
                       \/ \E k \in 1..Len(tasks) : tasks[k] = "err"
        IN  /\ failed => (exit_code = "Abnormal" /\ Len(err_stream) = 1)
            /\ ~failed => (exit_code = "Normal" /\ err_stream = <<>>)
            /\ unknown =>
                /\ Len(err_stream) = 1
                /\ err_stream[1].text = <<DefaultArea(env), " is not in the area">>

\* C13: when print has returned, the sink holds every line print wrote to its
\* writer, in the order written: the lines written through while the buffer
\* was full and then the lines still buffered at the end, none left behind.
C13_FlushedOnReturn ==
    (pc = "done" /\ printer /= NoPrinter) =>
        \E w \in {PrinterPrint(printer, <<>>)} :
            /\ ~w.panicked
            /\ out_stream = w.sink \o w.buf

\* C13: a run whose print returned after more lines than the buffer holds,
\* some written through during the loop and the last ones at the drop.
C13_Witness ==
    /\ pc = "done"
    /\ printer /= NoPrinter
    /\ Len(out_stream) > BufCap
    /\ PrinterPrint(printer, <<>>).buf /= <<>>

\* C15: a run requests every URL at most once: when it has ended, the
\* requests it issued are for pairwise different URLs, and they are none for
\* a run that failed before dispatch or listed the areas, eight for a Weekly
\* run and one for a Snapshot or FullDay run.
C15_EachUrlRequestedOnce ==
    pc \in {"done", "panicked"} =>
        LET issued == {k \in 1..Len(tasks) : tasks[k] /= "unspawned"}
            early  == \/ ClapError(args) /= "none"
                      \/ args.area
                      \/ AreaGet(DefaultArea(env)) = Absent
        IN  /\ \A k \in issued : \A h \in issued : k /= h => urls[k] /= urls[h]
            /\ Cardinality(issued)
                  = IF early THEN 0 ELSE IF args.week THEN WEEK_COUNT ELSE 1

\* C16: once an initialiser has run, the run had no argument error (today and
\* week were not both set) and the one initialiser chosen is that of the
\* resolved area id and the flags: the BS one for id 0, the CS one for id 255,
\* the terrestrial one carrying the id otherwise; the FullDay one for today,
\* the Weekly one (eight URLs) for week, the Snapshot one for neither.  A run
\* with today and week both set starts no initialiser and ends Abnormal.
C16_PrinterDispatch ==
    /\ tasks /= <<>> =>
        LET variant == IF area_id = 0 THEN "bs" ELSE IF area_id = 255 THEN "cs" ELSE "td"
            mode    == IF args.today THEN "FullDay"
                       ELSE IF args.week THEN "Weekly" ELSE "Snapshot"
        IN  /\ ~(args.today /\ args.week)
            /\ Len(urls) = IF mode = "Weekly" THEN WEEK_COUNT ELSE 1
            /\ \A k \in 1..Len(urls) :
                /\ urls[k].path = variant
                /\ variant = "td" =>
                      urls[k].query[Len(urls[k].query)] = <<"ggm_group_id", FormatU8(area_id)>>
            /\ printer /= NoPrinter => (printer.variant = variant /\ printer.mode = mode)
    /\ (args.today /\ args.week) =>
        /\ tasks = <<>>
        /\ printer = NoPrinter
        /\ pc /= "start" => (pc = "done" /\ exit_code = "Abnormal")

\* C16: a run that ended with the FullDay printer of BS.
C16_Witness ==
    /\ pc = "done"
    /\ area_id = 0
    /\ args.today
    /\ printer.variant = "bs"
    /\ printer.mode = "FullDay"

\* C17: when requests of a batch failed, the error the run reports is the
\* error of the failed request with the smallest position among the URLs,
\* whatever order the requests ended in.
C17_FirstFailedPosition ==
    (/\ pc = "done"
     /\ Len(tasks) = WEEK_COUNT
     /\ \E k \in 1..WEEK_COUNT : tasks[k] = "err") =>
        /\ Len(err_stream) = 1
        /\ tasks[err_stream[1].src[1]] = "err"
        /\ \A k \in 1..(err_stream[1].src[1] - 1) : tasks[k] = "ok"

\* C17: a batch in which two requests failed, the first request succeeded,
\* and a request ended while an earlier one was still running.
C17_Witness ==
    /\ pc = "done"
    /\ Len(tasks) = WEEK_COUNT
    /\ overtook
    /\ tasks[1] = "ok"
    /\ Cardinality({k \in 1..WEEK_COUNT : tasks[k] = "err"}) >= 2

(***************************************************************************)
(* Properties of SpecBatch.                                                *)
(***************************************************************************)
\* C14: every request of a batch is started before a result is awaited (and
\* before a request ends); the batch has returned, with a printer or with an
\* error, only when every request has ended, whether or not one of them
\* failed; and when every request ends at some time multiple_requests does
\* return, all the results joined (the aggregation follows without a wait).
C14_BatchJoinsAll ==
    /\ [](/\ (body_strings /= <<>> \/ \E k \in 1..Len(tasks) : Finished(tasks, k)) =>
                (handles = Len(urls) /\ \A k \in 1..Len(tasks) : tasks[k] /= "unspawned")
          /\ pc \in {"done", "panicked"} =>
                /\ Len(tasks) = WEEK_COUNT
                /\ \A k \in 1..Len(tasks) : Finished(tasks, k)
                /\ Len(body_strings) = WEEK_COUNT)
    /\ (pc = "spawning") ~> AllJoined(body_strings, urls)

\* C14: a batch whose first request failed and whose eight results were all
\* awaited all the same, the last one a success.
C14_Witness ==
    /\ pc = "joining"
    /\ Len(body_strings) = WEEK_COUNT
    /\ ~body_strings[1].ok
    /\ body_strings[WEEK_COUNT].ok

(***************************************************************************)
(* Properties of SpecDates.                                                *)
(***************************************************************************)
\* C3: the Weekly initialisers build eight URLs whose dates are the eight
\* consecutive calendar dates from the first one, the date of now, less one
\* day when the local hour of now is before 5.
C3_ConsecutiveDates ==
    pc = "dated" =>
        LET first == LocalDate(tz, now)
                        - (IF LocalHour(tz, now) < TV_GUIDE_START_TIME THEN 1 ELSE 0)
        IN  /\ Len(urls) = WEEK_COUNT
            /\ \A k \in 1..WEEK_COUNT :
                urls[k].query[1] = <<"broad_cast_date", FormatYmd(first + k - 1)>>

(***************************************************************************)
(* Properties of SpecPrint.                                                *)
(***************************************************************************)
\* C4: a Snapshot printer writes one line per channel, the i-th beginning with
\* the i-th channel name: the channel and the title of its current slot, or
\* the channel and the not-broadcasting text when its list has no current slot.
C4_SnapshotOneLinePerChannel ==
    (pc \in {"printed", "panicked"} /\ printer.mode = "Snapshot") =>
        LET doc == printer.docs[1]
        IN  /\ Len(out_stream) = Len(doc.channels)
            /\ \A i \in 1..Len(doc.channels) :
                /\ IsPrefix(Trim(doc.channels[i]) \o <<" ">>, out_stream[i].text)
                /\ i <= Len(doc.lists) =>
                    LET j == FirstOfClass(doc.lists[i], "sc-current")
                    IN  /\ j = 0 => out_stream[i].text
                                      = Trim(doc.channels[i]) \o <<" ">> \o NotBroadcasting
                        /\ (j /= 0 /\ doc.lists[i][j].title /= Absent) =>
                              out_stream[i].text
                                = Trim(doc.channels[i]) \o <<" ">>
                                    \o Unescape(doc.lists[i][j].title[1])

\* C5: a FullDay printer writes, for every channel in order, a header line
\* with the channel name and then one line per future slot of the channel in
\* slot order, "HH:MM ~ HH:MM title" with HH and MM from positions 8-9 and
\* 10-11 of the slot's start and end; a channel without future slot gets its
\* header alone.
C5_FullDayLines ==
    (pc \in {"printed", "panicked"} /\ printer.mode = "FullDay") =>
        LET doc == printer.docs[1]
            At(i, j) == {n \in 1..Len(out_stream) : out_stream[n].src = <<1, i, j>>}
            Text(i, j) == out_stream[CHOOSE n \in At(i, j) : TRUE].text
            Hm(t) == SubSeq(t, 9, 10) \o <<":">> \o SubSeq(t, 11, 12)
        IN  /\ \A i \in 1..Len(doc.channels) :
                /\ Cardinality(At(i, 0)) = 1
                /\ Text(i, 0) = Trim(doc.channels[i])
            /\ \A i \in 1..Len(doc.lists) : \A j \in 1..Len(doc.lists[i]) :
                LET li == doc.lists[i][j]
                IN  IF HasClass(li, "sc-future")
                    THEN /\ Cardinality(At(i, j)) = 1
                         /\ (/\ li.s /= Absent
                             /\ li.e /= Absent
                             /\ li.title /= Absent
                             /\ Len(li.s[1]) >= 12
                             /\ Len(li.e[1]) >= 12) =>
                                Text(i, j) = Hm(li.s[1]) \o <<" ", "~", " ">> \o Hm(li.e[1])
                                                \o <<" ">> \o Unescape(li.title[1])
                    ELSE At(i, j) = {}
            /\ \A m \in 1..Len(out_stream) : \A n \in (m + 1)..Len(out_stream) :
                \/ out_stream[m].src[2] < out_stream[n].src[2]
                \/ /\ out_stream[m].src[2] = out_stream[n].src[2]
                   /\ out_stream[m].src[3] < out_stream[n].src[3]

\* C7: a printer holding a document whose channel markers and program lists
\* differ in number fails: its print does not return.
C7_MismatchIsError ==
    (/\ pc \in {"printed", "panicked"}
     /\ \E d \in 1..Len(printer.docs) :
            Len(printer.docs[d].channels) /= Len(printer.docs[d].lists)) =>
        pc = "panicked"

\* C11: in a FullDay or Weekly printer a future slot whose start or end is
\* not exactly twelve decimal digits aborts the operation: print does not
\* return, and no line is written from such a slot.
C11_InvalidTimestampAborts ==
    (pc \in {"printed", "panicked"} /\ printer.mode \in {"FullDay", "Weekly"}) =>
        LET Twelve(t) == Len(t) = 12 /\ \A k \in 1..Len(t) : IsDigit(t[k])
        IN  \A d \in 1..Len(printer.docs) : \A i \in 1..Len(printer.docs[d].lists) :
                \A j \in 1..Len(printer.docs[d].lists[i]) :
                    LET li == printer.docs[d].lists[i][j]
                    IN  (/\ HasClass(li, "sc-future")
                         /\ \/ li.s /= Absent /\ ~Twelve(li.s[1])
                            \/ li.e /= Absent /\ ~Twelve(li.e[1])) =>
                            /\ pc = "panicked"
                            /\ \A n \in 1..Len(out_stream) :
                                    out_stream[n].src /= <<d, i, j>>

\* C12: no printer renders an elapsed slot.  Every line of a Snapshot printer
\* that carries a title comes from a slot tagged current, the first one of
\* its list; every slot line of a FullDay or Weekly printer comes from a slot
\* tagged future.
C12_OnlyTaggedSlotsRendered ==
    \A n \in 1..Len(out_stream) :
        LET d == out_stream[n].src[1]
            i == out_stream[n].src[2]
            j == out_stream[n].src[3]
        IN  (printer /= NoPrinter /\ j > 0) =>
                LET ul == printer.docs[d].lists[i]
                IN  IF printer.mode = "Snapshot"
                    THEN /\ "sc-current" \in ul[j].classes
                         /\ \A k \in 1..(j - 1) : "sc-current" \notin ul[k].classes
                    ELSE "sc-future" \in ul[j].classes

\* C12: a printer returned from print having written a line from a list that
\* also holds, before the slot of that line, a slot it must not render: an
\* elapsed or future slot for Snapshot, an elapsed or current slot for FullDay.
C12_Witness ==
    /\ pc = "printed"
    /\ printer.mode \in {"Snapshot", "FullDay"}
    /\ \E n \in 1..Len(out_stream) :
        /\ out_stream[n].src[3] = 2
        /\ LET first == printer.docs[1].lists[out_stream[n].src[2]][1]
           IN  IF printer.mode = "Snapshot"
               THEN first.classes = {"sc-future"}
               ELSE first.classes \in {{}, {"sc-current"}}

====
